---- MODULE Spec2Model ----
(***************************************************************************)
(* TaskManager (src/components/task-manager.tsx): a React component that   *)
(* keeps a local replica `tasks` of the backend table "tasks", seeded by   *)
(* fetchTasks and kept live by three realtime handlers (INSERT, DELETE,    *)
(* UPDATE), and that sends create / update / delete commands to the        *)
(* backend.  The backend (table, storage bucket, realtime feed) is the     *)
(* environment; it is modelled through the calls the component makes.      *)
(***************************************************************************)
EXTENDS Integers, Sequences, FiniteSets, TLC

(* ------------------------------ bounds --------------------------------- *)
\* events from outside: the user's inputs and commands, other clients' writes to
\* the table, repeated unsubscribe calls
MaxEvents == 3
\* Date.now() returns a value in 0..MaxNow
MaxNow == 1

(* ------------------------------ values --------------------------------- *)
\* text typed into an input; "" is the empty field
Texts == {"", "x"}
\* null (no file, no image url) is the empty tuple
Null == <<>>
\* a File is the tuple of its name
Files == {<<"a.png">>}
Email == "me@example.org"
OtherEmail == "other@example.org"
Bucket == "tasks-images"

VARIABLES
  phase,           \* "init" | "active" | "deactivated": lifecycle of the component
  tasks,           \* useState<Task[]>: the local replica
  newTask,         \* useState({title, description}): the new-task form
  newDescription,  \* useState(""): the one description draft of all edit boxes
  taskImage,       \* useState<File | null>
  fetchCall,       \* the fetchTasks call: its position and the reply in flight
  channel,         \* state of the realtime channel "tasks-channel"
  feed,            \* postgres_changes events in flight to the channel, oldest first
  submitCall,      \* the handleSubmit call: position, captured state, locals (with
                   \* the state of its upload: none, pending, ok or error) and the
                   \* number of insert requests it has sent
  updateCall,      \* the updateTask call, with the number of update requests sent
  deleteCall,      \* the deleteTask call, with the number of delete requests sent
  db,              \* the backend table "tasks": a set of rows
  nextId,          \* the next identifier the backend assigns
  storage,         \* keys stored in the bucket "tasks-images"
  now,             \* the value Date.now() returned last; it never goes back
  started,         \* counters: events from outside, queries sent, unsubscribe calls
  missed,          \* a table change was emitted to no subscribed channel after the snapshot
  last,            \* the step taken last: its name, its input, the replica before it
  log              \* the replica when fetchTasks last returned and the feed events
                   \* delivered since, oldest first

vars == <<phase, tasks, newTask, newDescription, taskImage, fetchCall, channel, feed,
          submitCall, updateCall, deleteCall, db, nextId, storage, now, started,
          missed, last, log>>

(* ------------------------------ helpers -------------------------------- *)
Range(s) == {s[i] : i \in 1..Len(s)}

Ids(s) == {s[i].id : i \in 1..Len(s)}

\* the record of a step: its name, its input and the replica it started from
Step(op, arg) == [op |-> op, arg |-> arg, prev |-> tasks]

Idle == [pc |-> "idle"]

EmptyForm == [title |-> "", description |-> ""]

(* ------------------------------ backend -------------------------------- *)
\* .order("created_at", { ascending: true }): the rows by ascending created_at
RECURSIVE OrderByCreatedAt(_)
OrderByCreatedAt(rows) ==
  IF rows = {} THEN <<>>
  ELSE LET first == CHOOSE r \in rows : \A q \in rows : r.created_at <= q.created_at
       IN  <<first>> \o OrderByCreatedAt(rows \ {first})

\* the row the backend creates for an insert request: it assigns id and created_at
NewRow(req) ==
  [id |-> nextId, created_at |-> nextId, title |-> req.title,
   description |-> req.description, email |-> req.email, image_url |-> req.image_url]

\* the realtime server sends a change only to a channel that has joined
Emit(ev) == IF channel = "subscribed" THEN Append(feed, ev) ELSE feed

\* a change made after the query's snapshot reaches the component only through the feed
Missed == missed \/ (channel # "subscribed" /\ fetchCall.pc \notin {"idle", "sent"})

\* storage.getPublicUrl(filePath): the bucket's public URL of a key
PublicUrl(filePath) == <<Bucket, filePath>>

(* ------------------------------ initial state -------------------------- *)
Init ==
  /\ phase = "init"
  /\ tasks = <<>>
  /\ newTask = EmptyForm
  /\ newDescription = ""
  /\ taskImage = Null
  /\ fetchCall = Idle
  /\ channel = "unsubscribed"
  /\ feed = <<>>
  /\ submitCall = Idle
  /\ updateCall = Idle
  /\ deleteCall = Idle
  /\ db = {}
  /\ nextId = 1
  /\ storage = {}
  /\ now = 0
  /\ started = [events |-> 0, queries |-> 0, unsubscribes |-> 0]
  /\ missed = FALSE
  /\ last = [op |-> "init", arg |-> Null, prev |-> <<>>]
  /\ log = [base |-> <<>>, events |-> <<>>]

(* ------------------------------ activation ----------------------------- *)
\* a variant whose second effect creates the channel but never subscribes it
Mount_NoSubscribe ==
  /\ phase = "init"
  /\ phase' = "active"
  /\ fetchCall' = [pc |-> "sent"]
  /\ started' = [started EXCEPT !.queries = @ + 1]
  /\ UNCHANGED <<tasks, newTask, newDescription, taskImage, channel, feed, submitCall,
                 updateCall, deleteCall, db, nextId, storage, now, missed, last,
                 log>>

\* both effects of the first commit: fetchTasks() is called and the channel is
\* created, its three handlers registered and subscribe() called
Mount ==
  /\ phase = "init"
  /\ phase' = "active"
  /\ fetchCall' = [pc |-> "sent"]
  /\ channel' = "subscribing"
  /\ started' = [started EXCEPT !.queries = @ + 1]
  /\ UNCHANGED <<tasks, newTask, newDescription, taskImage, feed, submitCall,
                 updateCall, deleteCall, db, nextId, storage, now, missed, last,
                 log>>

\* the subscribe callback with status SUBSCRIBED: the status is logged
SubscribeStatusOk ==
  /\ channel = "subscribing"
  /\ channel' = "subscribed"
  /\ UNCHANGED <<phase, tasks, newTask, newDescription, taskImage, fetchCall, feed,
                 submitCall, updateCall, deleteCall, db, nextId, storage, now,
                 started, missed, last, log>>

\* the subscribe callback with status CHANNEL_ERROR or TIMED_OUT: logged, nothing else
SubscribeStatusError ==
  /\ channel = "subscribing"
  /\ channel' = "errored"
  /\ UNCHANGED <<phase, tasks, newTask, newDescription, taskImage, fetchCall, feed,
                 submitCall, updateCall, deleteCall, db, nextId, storage, now,
                 started, missed, last, log>>

(* ------------------------------ fetchTasks ----------------------------- *)
\* the backend runs the query: the reply carries the rows as they are now
SelectReply ==
  /\ fetchCall.pc = "sent"
  /\ \E error \in BOOLEAN :
       fetchCall' = [pc |-> "replied", error |-> error,
                     data |-> IF error THEN Null ELSE OrderByCreatedAt(db)]
  /\ UNCHANGED <<phase, tasks, newTask, newDescription, taskImage, channel, feed,
                 submitCall, updateCall, deleteCall, db, nextId, storage, now,
                 started, missed, last, log>>

\* a variant that adds the fetched rows to the list instead of replacing it
FetchedTasks_Merge(prev, reply) == IF reply.error THEN prev ELSE prev \o reply.data

\* a variant without the early return: setTasks(data) runs with the null data
FetchedTasks_NoReturn(prev, reply) == reply.data

\* what fetchTasks leaves in `tasks` once the query has returned {error, data}
FetchedTasks(prev, reply) == IF reply.error THEN prev ELSE reply.data

\* fetchTasks after its await
fetchTasks ==
  /\ fetchCall.pc = "replied"
  /\ tasks' = FetchedTasks(tasks, fetchCall)
  /\ fetchCall' = [pc |-> IF fetchCall.error THEN "failed" ELSE "done"]
  /\ last' = Step("fetchTasks", fetchCall)
  /\ log' = [base |-> tasks', events |-> <<>>]
  /\ UNCHANGED <<phase, newTask, newDescription, taskImage, channel, feed,
                 submitCall, updateCall, deleteCall, db, nextId, storage, now,
                 started, missed>>

(* ------------------------------ feed handlers -------------------------- *)
\* a variant that keeps the list ordered by created_at instead of appending
InsertedTasks_Sorted(prev, newRow) ==
  LET before == SelectSeq(prev, LAMBDA task : task.created_at <= newRow.created_at)
      after == SelectSeq(prev, LAMBDA task : task.created_at > newRow.created_at)
  IN  before \o <<newRow>> \o after

\* setTasks((prev) => [...prev, newTask])
InsertedTasks(prev, newRow) == Append(prev, newRow)

\* a variant with the test of the filter inverted
DeletedTasks_KeepMatch(prev, deletedTaskId) ==
  SelectSeq(prev, LAMBDA task : task.id = deletedTaskId)

\* a variant that removes the first task with the id only, as a find-and-splice
DeletedTasks_FirstOnly(prev, deletedTaskId) ==
  IF deletedTaskId \in Ids(prev)
  THEN LET first == CHOOSE i \in 1..Len(prev) :
                      /\ prev[i].id = deletedTaskId
                      /\ \A j \in 1..(i - 1) : prev[j].id # deletedTaskId
       IN  SubSeq(prev, 1, first - 1) \o SubSeq(prev, first + 1, Len(prev))
  ELSE prev

\* setTasks((prev) => prev.filter((task) => task.id !== deletedTaskId))
DeletedTasks(prev, deletedTaskId) == SelectSeq(prev, LAMBDA task : task.id # deletedTaskId)

\* a variant that adds the pushed row when no listed task has its id
UpdatedTasks_Upsert(prev, updatedTask) ==
  IF updatedTask.id \in Ids(prev)
  THEN [i \in 1..Len(prev) |-> IF prev[i].id = updatedTask.id THEN updatedTask ELSE prev[i]]
  ELSE Append(prev, updatedTask)

\* setTasks((prev) => prev.map((task) => task.id === updatedTask.id ? updatedTask : task))
UpdatedTasks(prev, updatedTask) ==
  [i \in 1..Len(prev) |-> IF prev[i].id = updatedTask.id THEN updatedTask ELSE prev[i]]

\* the record of the events delivered since the last load, with one more
Delivered(ev) == [log EXCEPT !.events = Append(@, ev)]

\* a channel delivers the oldest event in flight to the handler of its kind
Delivers(eventType) ==
  /\ channel = "subscribed"
  /\ feed # <<>>
  /\ Head(feed).eventType = eventType

\* a variant whose handler reads the `tasks` of the render the effect ran in (the
\* first one, with the empty list) instead of the updater's argument
InsertHandler_StaleClosure ==
  /\ Delivers("INSERT")
  /\ tasks' = InsertedTasks(<<>>, Head(feed).new)
  /\ feed' = Tail(feed)
  /\ last' = Step("INSERT", Head(feed))
  /\ log' = Delivered(Head(feed))
  /\ UNCHANGED <<phase, newTask, newDescription, taskImage, fetchCall, channel,
                 submitCall, updateCall, deleteCall, db, nextId, storage, now,
                 started, missed>>

InsertHandler ==
  /\ Delivers("INSERT")
  /\ tasks' = InsertedTasks(tasks, Head(feed).new)
  /\ feed' = Tail(feed)
  /\ last' = Step("INSERT", Head(feed))
  /\ log' = Delivered(Head(feed))
  /\ UNCHANGED <<phase, newTask, newDescription, taskImage, fetchCall, channel,
                 submitCall, updateCall, deleteCall, db, nextId, storage, now,
                 started, missed>>

DeleteHandler ==
  /\ Delivers("DELETE")
  /\ tasks' = DeletedTasks(tasks, Head(feed).old.id)
  /\ feed' = Tail(feed)
  /\ last' = Step("DELETE", Head(feed))
  /\ log' = Delivered(Head(feed))
  /\ UNCHANGED <<phase, newTask, newDescription, taskImage, fetchCall, channel,
                 submitCall, updateCall, deleteCall, db, nextId, storage, now,
                 started, missed>>

UpdateHandler ==
  /\ Delivers("UPDATE")
  /\ tasks' = UpdatedTasks(tasks, Head(feed).new)
  /\ feed' = Tail(feed)
  /\ last' = Step("UPDATE", Head(feed))
  /\ log' = Delivered(Head(feed))
  /\ UNCHANGED <<phase, newTask, newDescription, taskImage, fetchCall, channel,
                 submitCall, updateCall, deleteCall, db, nextId, storage, now,
                 started, missed>>

(* ------------------------------ deactivation --------------------------- *)
\* channel.unsubscribe(): the channel leaves, whatever state it was in
ChannelUnsubscribe(state) == "unsubscribed"

\* a variant whose cleanup does not unsubscribe the channel
Unmount_NoUnsubscribe ==
  /\ phase = "active"
  /\ phase' = "deactivated"
  /\ UNCHANGED <<tasks, newTask, newDescription, taskImage, fetchCall, channel, feed,
                 submitCall, updateCall, deleteCall, db, nextId, storage, now,
                 started, missed, last, log>>

\* the cleanup of the subscribing effect; the events still in flight to the
\* channel that has left are dropped
Unmount ==
  /\ phase = "active"
  /\ phase' = "deactivated"
  /\ channel' = ChannelUnsubscribe(channel)
  /\ feed' = IF channel' = "subscribed" THEN feed ELSE <<>>
  /\ started' = [started EXCEPT !.unsubscribes = @ + 1]
  /\ UNCHANGED <<tasks, newTask, newDescription, taskImage, fetchCall, submitCall,
                 updateCall, deleteCall, db, nextId, storage, now, missed, last,
                 log>>

\* unsubscribe() called again on the channel that has left
UnsubscribeAgain ==
  /\ phase = "deactivated"
  /\ started.events < MaxEvents
  /\ channel' = ChannelUnsubscribe(channel)
  /\ feed' = IF channel' = "subscribed" THEN feed ELSE <<>>
  /\ started' = [started EXCEPT !.events = @ + 1, !.unsubscribes = @ + 1]
  /\ UNCHANGED <<phase, tasks, newTask, newDescription, taskImage, fetchCall,
                 submitCall, updateCall, deleteCall, db, nextId, storage, now,
                 missed, last, log>>

(* ------------------------------ user input ----------------------------- *)
\* onChange of the title input: setNewTask((prev) => ({...prev, title}))
TypeTitle ==
  /\ phase = "active"
  /\ started.events < MaxEvents
  /\ \E v \in Texts : newTask' = [newTask EXCEPT !.title = v]
  /\ started' = [started EXCEPT !.events = @ + 1]
  /\ UNCHANGED <<phase, tasks, newDescription, taskImage, fetchCall, channel, feed,
                 submitCall, updateCall, deleteCall, db, nextId, storage, now,
                 missed, last, log>>

\* onChange of the description textarea: setNewTask((prev) => ({...prev, description}))
TypeDescription ==
  /\ phase = "active"
  /\ started.events < MaxEvents
  /\ \E v \in Texts : newTask' = [newTask EXCEPT !.description = v]
  /\ started' = [started EXCEPT !.events = @ + 1]
  /\ UNCHANGED <<phase, tasks, newDescription, taskImage, fetchCall, channel, feed,
                 submitCall, updateCall, deleteCall, db, nextId, storage, now,
                 missed, last, log>>

\* onChange of the edit textarea of any listed task: setNewDescription(value)
TypeNewDescription ==
  /\ phase = "active"
  /\ started.events < MaxEvents
  /\ tasks # <<>>
  /\ \E v \in Texts : newDescription' = v
  /\ started' = [started EXCEPT !.events = @ + 1]
  /\ UNCHANGED <<phase, tasks, newTask, taskImage, fetchCall, channel, feed,
                 submitCall, updateCall, deleteCall, db, nextId, storage, now,
                 missed, last, log>>

\* the file input changes: the first file is kept, an empty selection changes nothing
handleFileChange ==
  /\ phase = "active"
  /\ started.events < MaxEvents
  /\ \E files \in {<<>>} \cup {<<f>> : f \in Files} :
       taskImage' = IF Len(files) > 0 THEN files[1] ELSE taskImage
  /\ started' = [started EXCEPT !.events = @ + 1]
  /\ UNCHANGED <<phase, tasks, newTask, newDescription, fetchCall, channel, feed,
                 submitCall, updateCall, deleteCall, db, nextId, storage, now,
                 missed, last, log>>

(* ------------------------------ handleSubmit --------------------------- *)
\* `${file.name}-${Date.now()}`
FilePath(file, time) == <<file[1], time>>

\* the row sent by .insert({...newTask, email: session.user.email, image_url: imageUrl})
InsertRequest(form, imageUrl) ==
  [title |-> form.title, description |-> form.description, email |-> Email,
   image_url |-> imageUrl]

\* a variant that does not await uploadImage: the insert is sent while the upload runs
SubmitEntry_NoAwait(form, file, time) ==
  IF file # Null
  THEN [pc |-> "insert", form |-> form, file |-> file, upload |-> "pending",
        filePath |-> FilePath(file, time), sent |-> 1,
        request |-> InsertRequest(form, PublicUrl(FilePath(file, time)))]
  ELSE [pc |-> "insert", form |-> form, file |-> file, upload |-> "none", sent |-> 1,
        request |-> InsertRequest(form, Null)]

\* where handleSubmit goes first: into uploadImage when a file is selected, else
\* straight to the insert
SubmitEntry(form, file, time) ==
  IF file # Null
  THEN [pc |-> "upload", form |-> form, file |-> file, upload |-> "pending",
        filePath |-> FilePath(file, time), sent |-> 0]
  ELSE [pc |-> "insert", form |-> form, file |-> file, upload |-> "none", sent |-> 1,
        request |-> InsertRequest(form, Null)]

\* the form is submitted: handleSubmit runs to its first await with the state of
\* the render it was created in
handleSubmit ==
  /\ phase = "active"
  /\ submitCall.pc = "idle"
  /\ started.events < MaxEvents
  /\ \E time \in (IF taskImage = Null THEN {now} ELSE now..MaxNow) :
       /\ now' = time
       /\ submitCall' = SubmitEntry(newTask, taskImage, time)
  /\ started' = [started EXCEPT !.events = @ + 1]
  /\ UNCHANGED <<phase, tasks, newTask, newDescription, taskImage, fetchCall, channel,
                 feed, updateCall, deleteCall, db, nextId, storage, missed, last,
                 log>>

\* a variant that gives up the whole submit when the upload fails
UploadReturn_Abort(call, error) ==
  IF error THEN Idle ELSE [call EXCEPT !.pc = "getPublicUrl", !.upload = "ok"]

\* uploadImage after the upload returned: null on error, else on to getPublicUrl
UploadReturn(call, error) ==
  IF error
  THEN [pc |-> "insert", form |-> call.form, file |-> call.file, upload |-> "error",
        filePath |-> call.filePath, sent |-> call.sent + 1,
        request |-> InsertRequest(call.form, Null)]
  ELSE [call EXCEPT !.pc = "getPublicUrl", !.upload = "ok"]

\* storage.upload(filePath, file) completes, with or without an error
uploadImage ==
  /\ submitCall.pc = "upload"
  /\ \E error \in BOOLEAN :
       /\ storage' = IF error THEN storage ELSE storage \cup {submitCall.filePath}
       /\ submitCall' = UploadReturn(submitCall, error)
  /\ UNCHANGED <<phase, tasks, newTask, newDescription, taskImage, fetchCall, channel,
                 feed, updateCall, deleteCall, db, nextId, now, started, missed, last,
                 log>>

\* uploadImage returns data.publicUrl and handleSubmit sends the insert with it
UrlReturn(call) ==
  [pc |-> "insert", form |-> call.form, file |-> call.file, upload |-> call.upload,
   filePath |-> call.filePath, sent |-> call.sent + 1,
   request |-> InsertRequest(call.form, PublicUrl(call.filePath))]

getPublicUrl ==
  /\ submitCall.pc = "getPublicUrl"
  /\ submitCall' = UrlReturn(submitCall)
  /\ UNCHANGED <<phase, tasks, newTask, newDescription, taskImage, fetchCall, channel,
                 feed, updateCall, deleteCall, db, nextId, storage, now, started,
                 missed, last, log>>

\* a variant that clears the form whether or not the insert failed
SubmittedForm_AlwaysClear(form, error) == EmptyForm

\* the form after handleSubmit's insert returned: cleared unless there was an error
SubmittedForm(form, error) == IF error THEN form ELSE EmptyForm

\* a variant that adds the submitted task to the list before the feed reports it
SubmittedTasks_Optimistic(prev, request) ==
  Append(prev, [id |-> 0, created_at |-> 0, title |-> request.title,
                description |-> request.description, email |-> request.email,
                image_url |-> request.image_url])

\* what handleSubmit leaves in `tasks`: it never calls setTasks
SubmittedTasks(prev, request) == prev

\* a variant that resets the selected file together with the form
InsertReply_ClearImage ==
  /\ submitCall.pc = "insert"
  /\ db' = db \cup {NewRow(submitCall.request)}
  /\ nextId' = nextId + 1
  /\ feed' = Emit([eventType |-> "INSERT", new |-> NewRow(submitCall.request)])
  /\ missed' = Missed
  /\ newTask' = SubmittedForm(newTask, FALSE)
  /\ tasks' = SubmittedTasks(tasks, submitCall.request)
  /\ taskImage' = Null
  /\ submitCall' = Idle
  /\ UNCHANGED <<phase, newDescription, fetchCall, channel, updateCall,
                 deleteCall, storage, now, started, last, log>>

\* the backend runs the insert, the row is created and the change emitted;
\* handleSubmit resumes without an error
InsertReply ==
  /\ submitCall.pc = "insert"
  /\ db' = db \cup {NewRow(submitCall.request)}
  /\ nextId' = nextId + 1
  /\ feed' = Emit([eventType |-> "INSERT", new |-> NewRow(submitCall.request)])
  /\ missed' = Missed
  /\ newTask' = SubmittedForm(newTask, FALSE)
  /\ tasks' = SubmittedTasks(tasks, submitCall.request)
  /\ submitCall' = Idle
  /\ UNCHANGED <<phase, newDescription, taskImage, fetchCall, channel, updateCall,
                 deleteCall, storage, now, started, last, log>>

\* the insert fails; handleSubmit resumes with the error, logs it and returns
InsertError ==
  /\ submitCall.pc = "insert"
  /\ newTask' = SubmittedForm(newTask, TRUE)
  /\ tasks' = SubmittedTasks(tasks, submitCall.request)
  /\ submitCall' = Idle
  /\ UNCHANGED <<phase, newDescription, taskImage, fetchCall, channel, feed,
                 updateCall, deleteCall, db, nextId, storage, now, started, missed, last,
                 log>>

(* ------------------------------ updateTask, deleteTask ----------------- *)
\* a variant that does not read the draft: it sends the empty description
UpdateRequest_EmptyDraft(id, description) == [id |-> id, patch |-> [description |-> ""]]

\* .update({ description: newDescription }).eq("id", id)
UpdateRequest(id, description) == [id |-> id, patch |-> [description |-> description]]

\* the Edit button of a listed task: updateTask(task.id) runs to its await
updateTask ==
  /\ phase = "active"
  /\ updateCall.pc = "idle"
  /\ started.events < MaxEvents
  /\ \E id \in Ids(tasks) :
       updateCall' = [pc |-> "update", sent |-> 1,
                      request |-> UpdateRequest(id, newDescription)]
  /\ started' = [started EXCEPT !.events = @ + 1]
  /\ UNCHANGED <<phase, tasks, newTask, newDescription, taskImage, fetchCall, channel,
                 feed, submitCall, deleteCall, db, nextId, storage, now, missed, last,
                 log>>

\* the table after a partial update of the rows with this id
DbUpdated(rows, id, description) ==
  {IF r.id = id THEN [r EXCEPT !.description = description] ELSE r : r \in rows}

\* the backend runs an update: every changed row is emitted with its new version
DbUpdate(id, description) ==
  /\ db' = DbUpdated(db, id, description)
  /\ IF \E r \in db : r.id = id
     THEN LET row == CHOOSE r \in db : r.id = id
          IN  /\ feed' = Emit([eventType |-> "UPDATE", old |-> [id |-> id],
                                new |-> [row EXCEPT !.description = description]])
              /\ missed' = Missed
     ELSE UNCHANGED <<feed, missed>>

\* a variant that applies the patch to the list without waiting for the feed
UpdateTaskTasks_Optimistic(prev, request) ==
  [i \in 1..Len(prev) |->
     IF prev[i].id = request.id
     THEN [prev[i] EXCEPT !.description = request.patch.description]
     ELSE prev[i]]

\* what updateTask leaves in `tasks`: it never calls setTasks
UpdateTaskTasks(prev, request) == prev

\* the backend runs the update; updateTask resumes without an error and returns
UpdateReply ==
  /\ updateCall.pc = "update"
  /\ DbUpdate(updateCall.request.id, updateCall.request.patch.description)
  /\ tasks' = UpdateTaskTasks(tasks, updateCall.request)
  /\ updateCall' = Idle
  /\ UNCHANGED <<phase, newTask, newDescription, taskImage, fetchCall, channel,
                 submitCall, deleteCall, nextId, storage, now, started, last, log>>

\* a variant that sends the update once more when it has failed
UpdateError_Retry ==
  /\ updateCall.pc = "update"
  /\ tasks' = UpdateTaskTasks(tasks, updateCall.request)
  /\ updateCall' = IF updateCall.sent < 2 THEN [updateCall EXCEPT !.sent = @ + 1]
                                           ELSE Idle
  /\ UNCHANGED <<phase, newTask, newDescription, taskImage, fetchCall, channel, feed,
                 submitCall, deleteCall, db, nextId, storage, now, started, missed, last,
                 log>>

\* the update fails; updateTask resumes with the error, logs it and returns
UpdateError ==
  /\ updateCall.pc = "update"
  /\ tasks' = UpdateTaskTasks(tasks, updateCall.request)
  /\ updateCall' = Idle
  /\ UNCHANGED <<phase, newTask, newDescription, taskImage, fetchCall, channel, feed,
                 submitCall, deleteCall, db, nextId, storage, now, started, missed, last,
                 log>>

\* the Delete button of a listed task: deleteTask(task.id) runs to its await
deleteTask ==
  /\ phase = "active"
  /\ deleteCall.pc = "idle"
  /\ started.events < MaxEvents
  /\ \E id \in Ids(tasks) : deleteCall' = [pc |-> "delete", sent |-> 1, id |-> id]
  /\ started' = [started EXCEPT !.events = @ + 1]
  /\ UNCHANGED <<phase, tasks, newTask, newDescription, taskImage, fetchCall, channel,
                 feed, submitCall, updateCall, db, nextId, storage, now, missed, last,
                 log>>

\* the backend runs a delete: every removed row is emitted with its old identifier
DbDelete(id) ==
  /\ db' = {r \in db : r.id # id}
  /\ IF \E r \in db : r.id = id
     THEN /\ feed' = Emit([eventType |-> "DELETE", old |-> [id |-> id]])
          /\ missed' = Missed
     ELSE UNCHANGED <<feed, missed>>

\* what deleteTask leaves in `tasks`: it never calls setTasks
DeleteTaskTasks(prev, id) == prev

\* the backend runs the delete; deleteTask resumes without an error and returns
DeleteReply ==
  /\ deleteCall.pc = "delete"
  /\ DbDelete(deleteCall.id)
  /\ tasks' = DeleteTaskTasks(tasks, deleteCall.id)
  /\ deleteCall' = Idle
  /\ UNCHANGED <<phase, newTask, newDescription, taskImage, fetchCall, channel,
                 submitCall, updateCall, nextId, storage, now, started, last, log>>

\* the delete fails; deleteTask resumes with the error, logs it and returns
DeleteError ==
  /\ deleteCall.pc = "delete"
  /\ tasks' = DeleteTaskTasks(tasks, deleteCall.id)
  /\ deleteCall' = Idle
  /\ UNCHANGED <<phase, newTask, newDescription, taskImage, fetchCall, channel, feed,
                 submitCall, updateCall, db, nextId, storage, now, started, missed, last,
                 log>>

(* ------------------------------ other clients -------------------------- *)
\* another client of the same table inserts, updates or deletes a row
OtherInsert ==
  /\ started.events < MaxEvents
  /\ LET req == [title |-> "x", description |-> "", email |-> OtherEmail,
                 image_url |-> Null]
     IN  /\ db' = db \cup {NewRow(req)}
         /\ feed' = Emit([eventType |-> "INSERT", new |-> NewRow(req)])
  /\ nextId' = nextId + 1
  /\ missed' = Missed
  /\ started' = [started EXCEPT !.events = @ + 1]
  /\ UNCHANGED <<phase, tasks, newTask, newDescription, taskImage, fetchCall, channel,
                 submitCall, updateCall, deleteCall, storage, now, last, log>>

OtherUpdate ==
  /\ started.events < MaxEvents
  /\ \E r \in db : DbUpdate(r.id, "x")
  /\ started' = [started EXCEPT !.events = @ + 1]
  /\ UNCHANGED <<phase, tasks, newTask, newDescription, taskImage, fetchCall, channel,
                 submitCall, updateCall, deleteCall, nextId, storage, now, last,
                 log>>

OtherDelete ==
  /\ started.events < MaxEvents
  /\ \E r \in db : DbDelete(r.id)
  /\ started' = [started EXCEPT !.events = @ + 1]
  /\ UNCHANGED <<phase, tasks, newTask, newDescription, taskImage, fetchCall, channel,
                 submitCall, updateCall, deleteCall, nextId, storage, now, last,
                 log>>

(* ------------------------------ specification -------------------------- *)
Next ==
  \/ Mount
  \/ SubscribeStatusOk
  \/ SubscribeStatusError
  \/ SelectReply
  \/ fetchTasks
  \/ InsertHandler
  \/ DeleteHandler
  \/ UpdateHandler
  \/ Unmount
  \/ UnsubscribeAgain
  \/ TypeTitle
  \/ TypeDescription
  \/ TypeNewDescription
  \/ handleFileChange
  \/ handleSubmit
  \/ uploadImage
  \/ getPublicUrl
  \/ InsertReply
  \/ InsertError
  \/ updateTask
  \/ UpdateReply
  \/ UpdateError
  \/ deleteTask
  \/ DeleteReply
  \/ DeleteError
  \/ OtherInsert
  \/ OtherUpdate
  \/ OtherDelete

Spec == Init /\ [][Next]_vars

(* ------------------------------ properties ----------------------------- *)
FeedOps == {"INSERT", "DELETE", "UPDATE"}

\* the records of s that carry identifier id, by position
At(s, id) == {i \in 1..Len(s) : s[i].id = id}

\* C1: no two records of the replica share an identifier.
C1_IdentifierUniqueness ==
  \A i, j \in 1..Len(tasks) : tasks[i].id = tasks[j].id => i = j

\* nothing is pending: the load has succeeded, the subscription is active and has
\* been since the load's snapshot, no event and no command is in flight
Quiescent ==
  /\ phase = "active"
  /\ channel = "subscribed"
  /\ fetchCall.pc = "done"
  /\ feed = <<>>
  /\ submitCall.pc = "idle"
  /\ updateCall.pc = "idle"
  /\ deleteCall.pc = "idle"
  /\ ~missed

\* C2: once the load has succeeded, the subscription is active and every reply
\* and event has been delivered, the replica holds exactly the backend's rows.
C2_EventuallyConsistent == Quiescent => Range(tasks) = db

\* C3: a feed insert of a record whose identifier is not in the replica leaves the
\* previous sequence with that record appended last, whatever its timestamp.
C3_InsertViaFeed ==
  (last.op = "INSERT" /\ last.arg.new.id \notin Ids(last.prev)) =>
    /\ Len(tasks) = Len(last.prev) + 1
    /\ tasks[Len(tasks)] = last.arg.new
    /\ \A i \in 1..Len(last.prev) : tasks[i] = last.prev[i]
    /\ Cardinality(At(tasks, last.arg.new.id)) = 1

C3_Witness ==
  /\ last.op = "INSERT"
  /\ last.arg.new.id \notin Ids(last.prev)
  /\ last.prev # <<>>
  /\ last.arg.new.created_at < last.prev[Len(last.prev)].created_at
  /\ tasks = Append(last.prev, last.arg.new)

\* C4: a feed delete of identifier X leaves no record with X, every other record
\* unchanged and in the same relative order; if X is absent nothing changes.
C4_DeleteViaFeed ==
  last.op = "DELETE" =>
    LET X == last.arg.old.id
        removedBefore(i) == Cardinality({j \in At(last.prev, X) : j < i})
    IN  /\ X \notin Ids(tasks)
        /\ Len(tasks) = Len(last.prev) - Cardinality(At(last.prev, X))
        /\ \A i \in 1..Len(last.prev) :
             last.prev[i].id # X => tasks[i - removedBefore(i)] = last.prev[i]
        /\ X \notin Ids(last.prev) => tasks = last.prev

C4_Witness ==
  /\ last.op = "DELETE"
  /\ last.prev # <<>>
  /\ last.prev[1].id = last.arg.old.id
  /\ Len(tasks) >= 1
  /\ Len(tasks) < Len(last.prev)

\* C5: a feed update carrying a record with identifier X replaces the record
\* with X, in place and in all fields; the length and every other record stay;
\* if X is absent nothing changes and no record is added.
C5_UpdateViaFeed ==
  last.op = "UPDATE" =>
    LET X == last.arg.new.id
    IN  /\ Len(tasks) = Len(last.prev)
        /\ \A i \in 1..Len(last.prev) :
             tasks[i] = IF last.prev[i].id = X THEN last.arg.new ELSE last.prev[i]
        /\ X \notin Ids(last.prev) => (tasks = last.prev /\ X \notin Ids(tasks))

C5_Witness ==
  /\ last.op = "UPDATE"
  /\ last.arg.new.id \in Ids(last.prev)
  /\ Len(tasks) >= 2
  /\ tasks # last.prev
  /\ last.arg.new \in Range(tasks)

\* created_at grows strictly along s
Ascending(s) == \A i, j \in 1..Len(s) : i < j => s[i].created_at < s[j].created_at

\* C6: a successful load leaves the replica equal to the sequence the backend
\* returned, in ascending created_at order; a record held before stays only if
\* it is among the fetched rows.
C6_LoadReplaces ==
  (last.op = "fetchTasks" /\ ~last.arg.error) =>
    /\ tasks = last.arg.data
    /\ Ascending(tasks)
    /\ \A r \in Range(last.prev) : r \in Range(tasks) => r \in Range(last.arg.data)
    /\ fetchCall.pc = "done"

C6_Witness ==
  /\ last.op = "fetchTasks"
  /\ ~last.arg.error
  /\ Len(tasks) >= 2
  /\ \E r \in Range(last.prev) : r \notin Range(tasks)

\* C7: a failed load leaves the replica as it was, records applied from feed
\* events included, and the activation sends no second query.
C7_FailedLoad ==
  /\ (last.op = "fetchTasks" /\ last.arg.error) => tasks = last.prev
  /\ fetchCall.pc = "failed" => started.queries = 1
  /\ started.queries <= 1

C7_Witness ==
  /\ last.op = "fetchTasks"
  /\ last.arg.error
  /\ fetchCall.pc = "failed"
  /\ tasks # <<>>
  /\ tasks = last.prev

\* a step of handleSubmit, updateTask or deleteTask
DispatcherStep ==
  \/ submitCall' # submitCall
  \/ updateCall' # updateCall
  \/ deleteCall' # deleteCall

\* C8: no step of handleSubmit, updateTask or deleteTask changes the replica, on
\* success or on error; the replica changes only when a load or a feed event is
\* applied.
C8_DispatcherFrame ==
  [][/\ DispatcherStep => tasks' = tasks
     /\ tasks' # tasks => (fetchTasks \/ InsertHandler \/ DeleteHandler \/ UpdateHandler)
    ]_vars

C8_Witness ==
  /\ phase = "active"
  /\ channel = "subscribed"
  /\ submitCall.pc = "idle"
  /\ \E r \in db : r.email = Email /\ r.id \notin Ids(tasks)
  /\ feed # <<>>
  /\ Head(feed).eventType = "INSERT"

\* C9: after the channel is unsubscribed no feed handler runs and no feed event
\* changes the replica; unsubscribing again changes nothing.
C9_Teardown ==
  [][phase = "deactivated" =>
       /\ ~(InsertHandler \/ DeleteHandler \/ UpdateHandler)
       /\ tasks' # tasks => fetchTasks
       /\ channel = "unsubscribed" /\ channel' = "unsubscribed"
       /\ feed = <<>> /\ feed' = <<>>
    ]_vars

C9_Witness ==
  /\ phase = "deactivated"
  /\ started.unsubscribes = 2
  /\ last.op \in FeedOps
  /\ \E r \in db : r \notin Range(tasks)

\* C10: when a file is selected, the insert request is sent only after the
\* upload has returned, and an image reference it carries is the public URL of
\* the key uploaded by this same call.
C10_UploadPrecedesInsert ==
  (submitCall.pc = "insert" /\ submitCall.file # Null) =>
    /\ submitCall.upload \in {"ok", "error"}
    /\ submitCall.upload = "ok" =>
         /\ submitCall.filePath \in storage
         /\ submitCall.filePath[1] = submitCall.file[1]
         /\ submitCall.request.image_url = PublicUrl(submitCall.filePath)

C10_Witness ==
  /\ submitCall.pc = "insert"
  /\ submitCall.file # Null
  /\ submitCall.upload = "ok"
  /\ submitCall.request.image_url = PublicUrl(submitCall.filePath)
  /\ submitCall.filePath \in storage

\* C11: when the upload fails uploadImage returns null without resolving a URL
\* and handleSubmit still sends its insert, with a null image reference; the
\* insert carries null exactly when no file is selected or the upload failed.
C11_UploadFailureProceeds ==
  [][/\ (submitCall.pc = "upload" /\ submitCall' # submitCall) =>
          \/ /\ submitCall'.pc = "getPublicUrl"
             /\ submitCall'.upload = "ok"
             /\ submitCall.filePath \in storage'
          \/ /\ submitCall'.pc = "insert"
             /\ submitCall'.upload = "error"
             /\ submitCall'.request.image_url = Null
             /\ storage' = storage
     /\ submitCall'.pc = "getPublicUrl" => submitCall'.upload = "ok"
     /\ submitCall'.pc = "insert" =>
          /\ submitCall'.sent = 1
          /\ submitCall'.request.image_url = Null
               <=> (submitCall'.file = Null \/ submitCall'.upload = "error")
    ]_vars

C11_Witness ==
  /\ submitCall.pc = "insert"
  /\ submitCall.file # Null
  /\ submitCall.upload = "error"
  /\ submitCall.request.image_url = Null
  /\ submitCall.filePath \notin storage

\* the step in which the insert of handleSubmit returns
InsertReturns == submitCall.pc = "insert" /\ submitCall'.pc = "idle"

\* C12: handleSubmit resets the form to empty when its insert succeeded and
\* leaves it as it is when the insert failed; no earlier step of the call
\* touches the form.
C12_FormClearedOnSuccessOnly ==
  [][/\ InsertReturns =>
          newTask' = IF db' # db THEN EmptyForm ELSE newTask
     /\ (submitCall' # submitCall /\ ~InsertReturns) => newTask' = newTask
    ]_vars

C12_Witness ==
  /\ phase = "active"
  /\ submitCall.pc = "idle"
  /\ storage # {}
  /\ nextId = 1
  /\ newTask = [title |-> "x", description |-> ""]

\* the transitions of the channel named by the lifecycle
\* unsubscribed -> subscribing -> subscribed -> unsubscribed, and the end of a
\* failed attempt
LifecycleSteps ==
  {<<"unsubscribed", "subscribing">>, <<"subscribing", "subscribed">>,
   <<"subscribed", "unsubscribed">>, <<"subscribing", "errored">>,
   <<"errored", "unsubscribed">>}

\* the channel is opened and subscribed at activation and at no other time
OpenedOnceAtActivation ==
  /\ (phase = "init" /\ phase' = "active") => channel' = "subscribing"
  /\ (channel' = "subscribing" /\ channel # "subscribing") => phase = "init"
  /\ channel = "errored" => channel' \in {"errored", "unsubscribed"}

\* C13 as stated: the channel moves only along unsubscribed -> subscribing ->
\* subscribed -> unsubscribed; it is opened and subscribed once, at activation,
\* and a failed attempt is not retried.
C13_LifecycleAsStated ==
  [][/\ channel' # channel => <<channel, channel'>> \in LifecycleSteps
     /\ OpenedOnceAtActivation
    ]_vars

\* C13 amended: as stated, except that the teardown also takes a channel that is
\* still subscribing to unsubscribed.
C13_Lifecycle ==
  [][/\ channel' # channel =>
          <<channel, channel'>> \in LifecycleSteps \cup {<<"subscribing", "unsubscribed">>}
     /\ (channel' = "unsubscribed" /\ channel # "unsubscribed") => phase' = "deactivated"
     /\ OpenedOnceAtActivation
    ]_vars

C13_Witness ==
  /\ phase = "active"
  /\ channel = "subscribed"
  /\ fetchCall.pc = "failed"
  /\ started.queries = 1
  /\ started.unsubscribes = 0

\* a call that has sent its record request returns
RequestReturns ==
  \/ submitCall.pc = "insert" /\ submitCall' # submitCall
  \/ updateCall.pc = "update" /\ updateCall' # updateCall
  \/ deleteCall.pc = "delete" /\ deleteCall' # deleteCall

RowFields == {"id", "created_at", "title", "description", "email", "image_url"}

\* the rendered state holds values of its own kinds only: rows, texts, a file or null
NoErrorValue ==
  /\ \A i \in 1..Len(tasks) : DOMAIN tasks[i] = RowFields
  /\ DOMAIN newTask = {"title", "description"}
  /\ newTask.title \in Texts
  /\ newTask.description \in Texts
  /\ newDescription \in Texts
  /\ taskImage \in Files \cup {Null}

\* C14: each call of createTask, updateTask or deleteTask sends at most one record
\* request; when the request has returned, failed or not, the call is over (it
\* goes back to idle, nothing is sent again); a failed request changes neither the
\* replica nor the form, the draft or the selected file, and none of them ever
\* holds an error value.
C14_SingleAttemptContained ==
  [][/\ (submitCall.pc = "insert" /\ submitCall' # submitCall) => submitCall' = Idle
     /\ (updateCall.pc = "update" /\ updateCall' # updateCall) => updateCall' = Idle
     /\ (deleteCall.pc = "delete" /\ deleteCall' # deleteCall) => deleteCall' = Idle
     /\ submitCall'.pc # "idle" =>
          submitCall'.sent = (IF submitCall'.pc = "insert" THEN 1 ELSE 0)
     /\ updateCall'.pc # "idle" => updateCall'.pc = "update" /\ updateCall'.sent = 1
     /\ deleteCall'.pc # "idle" => deleteCall'.pc = "delete" /\ deleteCall'.sent = 1
     /\ (RequestReturns /\ db' = db) =>
          /\ tasks' = tasks
          /\ newTask' = newTask
          /\ newDescription' = newDescription
          /\ taskImage' = taskImage
          /\ phase' = phase
     /\ NoErrorValue'
    ]_vars

\* a submit whose upload succeeded and whose insert failed: the key is stored, no
\* row was ever created, the call is over
C14_Witness ==
  /\ submitCall.pc = "idle"
  /\ taskImage # Null
  /\ storage # {}
  /\ nextId = 1
  /\ db = {}
  /\ tasks = <<>>

\* the row versions the backend hands to the component in this step: the rows of
\* the load result when fetchTasks resumes, the payload of the insert or update
\* event when the channel delivers it
DeliveredRows ==
  (IF fetchCall.pc = "replied" /\ fetchCall' # fetchCall /\ ~fetchCall.error
   THEN Range(fetchCall.data) ELSE {})
  \cup
  (IF feed # <<>> /\ feed' = Tail(feed) /\ channel = "subscribed"
      /\ Head(feed).eventType \in {"INSERT", "UPDATE"}
   THEN {Head(feed).new} ELSE {})

\* C15: every record of the replica is, field for field, a row version the
\* backend delivered in the load result or in an insert or update payload: a step
\* puts no other record into the replica, and every identifier and timestamp in
\* the replica is one the backend assigned.
C15_MirrorsBackend ==
  [][/\ \A r \in Range(tasks') : r \in Range(tasks) \/ r \in DeliveredRows
     /\ \A r \in Range(tasks') : r.id \in 1..(nextId' - 1) /\ r.created_at = r.id
    ]_vars

\* an update payload has replaced the listed version of its row
C15_Witness ==
  /\ last.op = "UPDATE"
  /\ last.arg.new \in Range(tasks)
  /\ last.arg.new \notin Range(last.prev)
  /\ last.arg.new.id \in Ids(last.prev)

\* one feed event applied to a replica, by the updater of its handler
ApplyEvent(prev, ev) ==
  CASE ev.eventType = "INSERT" -> InsertedTasks(prev, ev.new)
    [] ev.eventType = "DELETE" -> DeletedTasks(prev, ev.old.id)
    [] ev.eventType = "UPDATE" -> UpdatedTasks(prev, ev.new)

\* the events applied one after another, oldest first
RECURSIVE ApplyAll(_, _)
ApplyAll(prev, events) ==
  IF events = <<>> THEN prev
  ELSE ApplyAll(ApplyEvent(prev, Head(events)), Tail(events))

\* C16: the replica is the one fetchTasks left when it last returned (the empty
\* one before that) with the feed events delivered since applied one after
\* another in the order of delivery: no event's effect is lost to another's.
C16_FeedSerialized == tasks = ApplyAll(log.base, log.events)

\* an insert and then an update of the inserted row were delivered after the load
C16_Witness ==
  /\ Len(log.events) >= 2
  /\ log.events[1].eventType = "INSERT"
  /\ log.events[2].eventType = "UPDATE"
  /\ log.events[2].new.id = log.events[1].new.id
  /\ log.events[2].new # log.events[1].new
  /\ fetchCall.pc = "done"

\* row r is row q with at most its description replaced by the one given
PatchedOnly(q, r, description) ==
  /\ r.id = q.id
  /\ r.title = q.title
  /\ r.created_at = q.created_at
  /\ r.image_url = q.image_url
  /\ r.email = q.email
  /\ r.description = description

\* C17: updateTask(id) sends one request that names the row with this id and
\* carries one field, the description, whose value is the draft as it is at the
\* call; the draft is the text typed last into an edit box (empty before any) and
\* is changed by typing only, not by the call or its return; the request changes
\* the description of the named row and nothing else in the table.
C17_PartialUpdate ==
  [][/\ (updateCall.pc = "idle" /\ updateCall'.pc = "update") =>
          /\ updateCall'.request.id \in Ids(tasks)
          /\ DOMAIN updateCall'.request.patch = {"description"}
          /\ updateCall'.request.patch.description = newDescription
          /\ newDescription' = newDescription
          /\ db' = db
     /\ (updateCall.pc = "update" /\ updateCall'.pc = "idle") =>
          /\ newDescription' = newDescription
          /\ {r.id : r \in db'} = {q.id : q \in db}
          /\ \A q \in db : \E r \in db' :
               IF q.id = updateCall.request.id
               THEN PatchedOnly(q, r, updateCall.request.patch.description) \/ r = q
               ELSE r = q
     /\ newDescription' # newDescription =>
          /\ started'.events = started.events + 1
          /\ updateCall' = updateCall
          /\ tasks # <<>>
          /\ db' = db
     /\ (started.events = 0 /\ updateCall'.pc = "update") =>
          updateCall'.request.patch.description = ""
    ]_vars

\* the request of updateTask is in flight with the draft typed before the call,
\* for a row whose description differs from it
C17_Witness ==
  /\ updateCall.pc = "update"
  /\ newDescription = "x"
  /\ updateCall.request.patch.description = "x"
  /\ \E q \in db : q.id = updateCall.request.id /\ q.description = ""

\* the rows an event for the current replica can carry
EventRows ==
  Range(tasks) \cup db
    \cup {feed[i].new : i \in {j \in 1..Len(feed) : feed[j].eventType # "DELETE"}}

\* C18: on any replica, with or without duplicates, a delete event for X leaves
\* no record with identifier X and keeps the others in order, an update event for
\* X puts its row in the place of every record with identifier X, and either
\* event applied a second time changes nothing more; an insert event applied
\* twice adds two records with its identifier.
C18_IdempotentOverDuplicates ==
  /\ \A id \in 1..nextId :
       LET once == DeletedTasks(tasks, id)
       IN  /\ At(once, id) = {}
           /\ once = SelectSeq(tasks, LAMBDA task : task.id # id)
           /\ Len(once) = Len(tasks) - Cardinality(At(tasks, id))
           /\ DeletedTasks(once, id) = once
  /\ \A row \in EventRows :
       LET once == UpdatedTasks(tasks, row)
       IN  /\ Len(once) = Len(tasks)
           /\ \A i \in 1..Len(tasks) :
                once[i] = IF i \in At(tasks, row.id) THEN row ELSE tasks[i]
           /\ UpdatedTasks(once, row) = once
  /\ \A row \in EventRows :
       LET once == InsertedTasks(tasks, row)
           twice == InsertedTasks(once, row)
       IN  /\ twice # once
           /\ Cardinality(At(twice, row.id)) = Cardinality(At(tasks, row.id)) + 2
  /\ last.op = "DELETE" =>
       /\ tasks = DeletedTasks(last.prev, last.arg.old.id)
       /\ At(tasks, last.arg.old.id) = {}
  /\ last.op = "UPDATE" =>
       /\ tasks = UpdatedTasks(last.prev, last.arg.new)
       /\ \A i \in At(tasks, last.arg.new.id) : tasks[i] = last.arg.new

\* a delete event was delivered to a replica that listed its row twice
C18_Witness ==
  /\ last.op = "DELETE"
  /\ Cardinality(At(last.prev, last.arg.old.id)) >= 2
  /\ At(tasks, last.arg.old.id) = {}

\* handleSubmit is called
SubmitStarts == submitCall.pc = "idle" /\ submitCall'.pc # "idle"

\* the selected file is replaced by a selection only, and never by none
KeepsAttachment ==
  /\ taskImage # Null => taskImage' # Null
  /\ taskImage' # taskImage =>
       /\ taskImage' \in Files
       /\ started'.events = started.events + 1
       /\ submitCall' = submitCall

====
